---- MODULE Spec2Model ----
(***************************************************************************)
(* State-machine model of LiveKitAudioWorker (src/worker.js): participant  *)
(* join/leave handling, the route registry, the per-speaker relay loops    *)
(* (_startAudioStream), the transformation step (sendS2SChunk) with its    *)
(* quota and silence gates, and route recreation.                          *)
(*                                                                         *)
(* JavaScript runs one handler at a time, so every action below is one     *)
(* synchronous segment of a handler: from its entry (or from the           *)
(* resumption of an await) to its next await or return.                    *)
(***************************************************************************)
EXTENDS Integers, Sequences, FiniteSets, TLC

----------------------------------------------------------------------------
(* Bounds of the model *)

\* samples per second of the scaled-down PCM stream (the program uses 48000)
SampleRate == 4
\* AudioSource objects that may be created for one identity
MaxChan == 2
\* frames one relay loop may receive before its stream is only allowed to end:
\* in the lifecycle specification, and in the stream and quota specifications
MaxLifeFrames == 1
MaxFrames == 3
\* clock ticks of the stream and of the quota specification
MaxStreamTicks == 2
MaxQuotaTicks == 3
\* external operations (lookup, publish, unpublish, fetch) awaited at one time
MaxInFlight == 2
\* clock value when the worker is constructed (Date.now() at that moment)
StartTime == 1000
MaxOutFrames == 3
MaxFailFrames == 2
MaxFailTicks == 3

(* Program constants *)
S2S_CHUNK_MS == 1000
SILENCE_DB == -55
DB_FLOOR == -120
minChunkInterval == 200
QUOTA_COOLDOWN_MS == 60000
QUOTA_TIMER_EXPIRY_MS == 60000
QUOTA_TIMER_INTERVAL_MS == 30000

\* ordinary participants
Speakers == {"A", "B"}
\* remote participants whose identity starts with the worker's own identity
\* 'audio-worker': one without and one with the dash after it
SelfIds == {"audio-worker2", "audio-worker-2"}
Ids == Speakers \cup SelfIds
\* the participants of the lifecycle specification
LifeIds == {"A"}
Slots == {1, 2}
Voices == {"default", "custom"}
NoVoice == "none"
NoRoute == [chan |-> 0, voiceId |-> NoVoice]
Null == -1

VARIABLES
    roomState,          \* this.room / this.room.state
    present,            \* the room's remote participants
    hasTrack,           \* participants with a subscribed audio track
    published,          \* per identity: output channels published in the session
    connPc,             \* position of connectToRoom
    enumQueue,          \* participants connectToRoom has still to enumerate
    reconnectTimer,     \* this._reconnectTimer is pending
    participantVoices,  \* this.participantVoices
    routes,             \* this.routes
    nulled,             \* per identity: route objects whose source was set to null
    chanCount,          \* per identity: AudioSource objects created so far
    activeS2S,          \* this.activeS2S
    loops,              \* the running relay loops (async bodies of _startAudioStream)
    quotaExhausted,     \* this.quotaExhausted
    lastSuccessfulCall, \* this.lastSuccessfulCall
    recentlyRecreated,  \* this.recentlyRecreated (each member has its removal timer pending)
    retryPending,       \* identities with a pending TrackSubscribed retry timer
    joins,              \* handleParticipantConnected calls awaiting lookup or publish
    leaves,             \* handleParticipantDisconnected calls awaiting unpublish
    now,                \* Date.now()
    quotaFailedAt,      \* when the last quota-classified response arrived (history)
    userVoiceSelections, \* the control plane's userVoiceSelections map
    voiceHistory,       \* per user id: the voice of the last set-voice answered 200 (history)
    last                \* the handler segment that ran last (history)

envVars == <<roomState, present, hasTrack, published>>
connVars == <<connPc, enumQueue, reconnectTimer>>
regVars == <<participantVoices, routes, nulled, chanCount>>
streamVars == <<activeS2S, loops>>
quotaVars == <<quotaExhausted, lastSuccessfulCall, quotaFailedAt>>
taskVars == <<recentlyRecreated, retryPending, joins, leaves>>
storeVars == <<userVoiceSelections, voiceHistory>>
vars == <<roomState, present, hasTrack, published, connPc, enumQueue,
          reconnectTimer, participantVoices, routes, nulled, chanCount,
          activeS2S, loops, quotaExhausted, lastSuccessfulCall,
          recentlyRecreated, retryPending, joins, leaves, now, quotaFailedAt,
          userVoiceSelections, voiceHistory, last>>

----------------------------------------------------------------------------
(* Pure helpers *)

RECURSIVE SumSquares(_)
SumSquares(int16) ==
    IF int16 = <<>> THEN 0
    ELSE Head(int16) * Head(int16) + SumSquares(Tail(int16))

\* 100 * 32768^2 * 10^(d/10), rounded up: the mean square (times 100) of a
\* block whose level is exactly d dBFS
MeanSquareX100(d) ==
    CASE d = -120 -> 1
      [] d = -60 -> 107375
      [] d = -56 -> 269712
      [] d = -55 -> 339547
      [] d = -54 -> 427465
      [] d = -50 -> 1073742
      [] d = -40 -> 10737419
      [] d = -30 -> 107374183

DbGrid == {-60, -56, -55, -54, -50, -40, -30}

\* rmsDbFS, rounded down to the grid of levels above
rmsDbFS(int16) ==
    IF int16 = <<>> THEN DB_FLOOR
    ELSE LET reached == {d \in DbGrid :
                           SumSquares(int16) * 100 >= MeanSquareX100(d) * Len(int16)}
         IN IF reached = {} THEN DB_FLOOR
            ELSE CHOOSE d \in reached : \A e \in reached : e <= d

RECURSIVE Flatten_Prepending(_)
\* Flatten that writes every buffer in front of the ones copied before
Flatten_Prepending(buffers) ==
    IF buffers = <<>> THEN <<>>
    ELSE Flatten_Prepending(Tail(buffers)) \o Head(buffers)

RECURSIVE Flatten(_)
\* the merge loop of _startAudioStream: the buffers copied one after another
Flatten(buffers) ==
    IF buffers = <<>> THEN <<>>
    ELSE Head(buffers) \o Flatten(Tail(buffers))

samplesPerChunk ==
    LET n == (SampleRate * S2S_CHUNK_MS) \div 1000 IN IF n < 1 THEN 1 ELSE n

IdleLoop == [pc |-> "idle"]

\* a relay loop at its first "for await": the locals of the async body, the
\* locals of the sendS2SChunk / recreateRouteForParticipant call it is inside
\* (route, old, voiceInfo, newChan, err), and the history of what it was
\* given (nframes, pushed) and what it drained (drained)
NewLoop ==
    [pc |-> "frames", flush |-> FALSE, buffers |-> <<>>, totalSamples |-> 0,
     lastChunkTime |-> 0, route |-> 0, old |-> 0, voiceInfo |-> NoVoice,
     newChan |-> 0, err |-> "none", nframes |-> 0, pushed |-> <<>>,
     drained |-> <<>>]

Running(i) == {s \in Slots : loops[i][s].pc # "idle"}

FreeSlot(lps, i) == CHOOSE s \in Slots : lps[i][s].pc = "idle" /\
                        \A t \in Slots : lps[i][t].pc = "idle" => s <= t

\* identity.startsWith('audio-worker') and speaker.startsWith('audio-worker-')
StartsWithAudioWorker(identity) ==
    identity \in {"audio-worker", "audio-worker2", "audio-worker-2"}
StartsWithAudioWorkerDash(speaker) == speaker \in {"audio-worker-2"}

RouteUsable(i) == routes[i] # NoRoute /\ routes[i].chan \notin nulled[i]

Event(op, id, info) == [op |-> op, id |-> id, info |-> info]

\* the end of a transformation request: its outcome, the outcome of the frame
\* capture, the output channel captureFrame was called on (0: none), the
\* frames of the response that were captured and the number it held
Response(id, info, cap, into, frames, n) ==
    [op |-> "response", id |-> id, info |-> info, cap |-> cap, into |-> into,
     frames |-> frames, n |-> n]

\* JSON values of a request: a string, a number, or nothing at all
Str(text) == [type |-> "string", text |-> text]
Num(text) == [type |-> "number", text |-> text]
Undefined == [type |-> "undefined", text |-> ""]

\* JavaScript truthiness of such a value
Truthy(x) ==
    ~ \/ x.type = "undefined"
      \/ x.type = "string" /\ x.text = ""
      \/ x.type = "number" /\ x.text = "0"

\* the userId and voiceId fields a set-voice body may carry
BodyUserIds == {Undefined, Str(""), Str("u1"), Str("5"), Num("5")}
BodyVoiceIds == {Undefined, Str(""), Str("v1"), Str("v2")}
\* the :userId path parameters of get-voice (always strings)
ParamUserIds == {"u1", "5"}
\* the voice get-voice answers with when nothing is stored
DEFAULT_VOICE == Str("pNInz6obpgDQGcFmaJgB")

\* new Map(): Map.get answers undefined for every key
EmptyStore == [k \in BodyUserIds |-> Undefined]

----------------------------------------------------------------------------
(* Initial state: the worker as its constructor leaves it *)

Init ==
    /\ roomState = "none"
    /\ present = {}
    /\ hasTrack = {}
    /\ published = [i \in Ids |-> {}]
    /\ connPc = "idle"
    /\ enumQueue = <<>>
    /\ reconnectTimer = FALSE
    /\ participantVoices = [i \in Ids |-> NoVoice]
    /\ routes = [i \in Ids |-> NoRoute]
    /\ nulled = [i \in Ids |-> {}]
    /\ chanCount = [i \in Ids |-> 0]
    /\ activeS2S = {}
    /\ loops = [i \in Ids |-> [s \in Slots |-> IdleLoop]]
    /\ quotaExhausted = Null
    /\ lastSuccessfulCall = StartTime
    /\ recentlyRecreated = {}
    /\ retryPending = {}
    /\ joins = {}
    /\ leaves = {}
    /\ now = StartTime
    /\ quotaFailedAt = Null
    /\ userVoiceSelections = EmptyStore
    /\ voiceHistory = EmptyStore
    /\ last = Event("init", "-", FALSE)

----------------------------------------------------------------------------
(* _startAudioStream and the relay loop *)

\* StartAudioStream without its "already active" check
StartAudioStream_NoActiveCheck(speaker, act, lps, rts) ==
    IF \/ StartsWithAudioWorkerDash(speaker)
       \/ rts[speaker] = NoRoute
       \/ rts[speaker].chan \in nulled[speaker]
    THEN <<act, lps>>
    ELSE <<act \cup {speaker},
           [lps EXCEPT ![speaker][FreeSlot(lps, speaker)] = NewLoop]>>

\* _startAudioStream(track, speaker) up to the first await of its async body:
\* the new <<activeS2S, loops>>, given the routes map it reads
StartAudioStream(speaker, act, lps, rts) ==
    IF \/ StartsWithAudioWorkerDash(speaker)
       \/ speaker \in act
       \/ rts[speaker] = NoRoute
       \/ rts[speaker].chan \in nulled[speaker]
    THEN <<act, lps>>
    ELSE <<act \cup {speaker},
           [lps EXCEPT ![speaker][FreeSlot(lps, speaker)] = NewLoop]>>

\* the external operations the worker is awaiting
InFlight ==
    Cardinality(joins) + Cardinality(leaves) +
    Cardinality({x \in Ids \X Slots :
                   loops[x[1]][x[2]].pc \in {"fetch", "recreate_unpub", "recreate_pub"}})

\* the environment delivers an event that starts another external operation
\* only while fewer than MaxInFlight are being awaited
MayAwait == InFlight < MaxInFlight

\* a start request can be represented: a loop slot is free for the identity
SlotFree(i) == \E s \in Slots : loops[i][s].pc = "idle"

\* QuotaSkip that still skips when exactly the cooldown has passed
QuotaSkip_Inclusive ==
    quotaExhausted # Null /\ now - quotaExhausted <= QUOTA_COOLDOWN_MS

\* the quota gate of sendS2SChunk
QuotaSkip ==
    quotaExhausted # Null /\ now - quotaExhausted < QUOTA_COOLDOWN_MS

\* SendSkips without the route check
SendSkips_NoRouteGate(i, int16) ==
    \/ roomState # "connected"
    \/ QuotaSkip
    \/ rmsDbFS(int16) < SILENCE_DB

\* SendSkips without the silence gate
SendSkips_NoSilenceGate(i, int16) ==
    \/ roomState # "connected"
    \/ ~RouteUsable(i)
    \/ QuotaSkip

\* sendS2SChunk returns before the fetch: room, route, quota and silence gates
SendSkips(i, int16) ==
    \/ roomState # "connected"
    \/ ~RouteUsable(i)
    \/ QuotaSkip
    \/ rmsDbFS(int16) < SILENCE_DB

\* ChunkReady with the two conditions joined by "or"
ChunkReady_Either(totalSamples, lastChunkTime) ==
    totalSamples >= samplesPerChunk \/ now - lastChunkTime >= minChunkInterval

\* the drain condition of the relay loop
ChunkReady(totalSamples, lastChunkTime) ==
    totalSamples >= samplesPerChunk /\ now - lastChunkTime >= minChunkInterval

\* the flush condition at the end of the stream
FlushWanted(totalSamples) == 2 * totalSamples > samplesPerChunk

\* the loops of identity i without the one in slot s, which ended (the
\* remaining loops are kept in the lowest slots)
Ended(lps, i, s) ==
    [lps EXCEPT ![i] = [t \in Slots |->
        IF t < s THEN lps[i][t]
        ELSE IF t + 1 \in Slots THEN lps[i][t + 1] ELSE IdleLoop]]

\* AfterSend that ends the loop whenever sendS2SChunk returned
AfterSend_Stops(i, s, lp, act, lps) == <<act \ {i}, Ended(lps, i, s)>>

\* AfterSend that goes back to the frames also after the flush
AfterSend_Continues(i, s, lp, act, lps) ==
    <<act, [lps EXCEPT ![i][s] = [lp EXCEPT !.pc = "frames", !.route = 0]]>>

\* the loop after sendS2SChunk returned: next frame, or (after the flush)
\* the finally block
AfterSend(i, s, lp, act, lps) ==
    IF lp.flush
    THEN <<act \ {i}, Ended(lps, i, s)>>
    ELSE <<act, [lps EXCEPT ![i][s] = [lp EXCEPT !.pc = "frames", !.route = 0]]>>

\* one frame of the inbound stream reaches the loop
Frame(i, s, src, budget) ==
    LET lp == loops[i][s] IN
    /\ lp.pc = "frames"
    /\ lp.nframes < budget
    /\ IF src = <<>>
       THEN /\ loops' = [loops EXCEPT ![i][s].nframes = @ + 1]
            /\ last' = Event("frame", i, FALSE)
       ELSE LET b == Append(lp.buffers, src)
                t == lp.totalSamples + Len(src)
                in == [lp EXCEPT !.nframes = @ + 1, !.pushed = @ \o src]
            IN IF ~ChunkReady(t, lp.lastChunkTime)
               THEN /\ loops' = [loops EXCEPT ![i][s] =
                                   [in EXCEPT !.buffers = b, !.totalSamples = t]]
                    /\ last' = Event("frame", i, FALSE)
               ELSE LET merged == Flatten(b)
                        dr == [in EXCEPT !.buffers = <<>>, !.totalSamples = 0,
                                         !.lastChunkTime = now,
                                         !.drained = Append(@, merged)]
                    IN /\ SendSkips(i, merged) \/ MayAwait
                       /\ loops' = [loops EXCEPT ![i][s] =
                                      IF SendSkips(i, merged) THEN dr
                                      ELSE [dr EXCEPT !.pc = "fetch",
                                                      !.route = routes[i].chan]]
                       /\ last' = Event("send", i,
                                        [chunk |-> merged, flush |-> FALSE,
                                         issued |-> ~SendSkips(i, merged)])
    /\ UNCHANGED <<envVars, connVars, regVars, activeS2S, quotaVars, taskVars, now, storeVars>>

\* the inbound stream ends: flush attempt, then the finally block
StreamEnd(i, s) ==
    LET lp == loops[i][s]
        merged == Flatten(lp.buffers)
        sends == FlushWanted(lp.totalSamples) /\ ~SendSkips(i, merged)
    IN
    /\ lp.pc = "frames"
    /\ sends => MayAwait
    /\ IF sends
       THEN /\ loops' = [loops EXCEPT ![i][s] =
                           [lp EXCEPT !.pc = "fetch", !.flush = TRUE,
                                      !.route = routes[i].chan]]
            /\ UNCHANGED activeS2S
       ELSE /\ loops' = Ended(loops, i, s)
            /\ activeS2S' = activeS2S \ {i}
    /\ last' = IF FlushWanted(lp.totalSamples)
               THEN Event("send", i, [chunk |-> merged, flush |-> TRUE,
                                      issued |-> sends])
               ELSE Event("end", i, lp.totalSamples)
    /\ UNCHANGED <<envVars, connVars, regVars, quotaVars, taskVars, now, storeVars>>

\* the ways a transformation request ends without audio: 401 or 429 with
\* "quota" in the body, 429 or 401 without it, another non-2xx status, a 2xx
\* with an empty body, a timeout or connection error
FailureOutcomes ==
    {"quota401", "quota429", "rate429", "plain401", "error", "empty", "timeout"}

\* res.status of the outcome (0: fetch threw, there is no response)
Status(out) ==
    IF out \in {"quota401", "plain401"} THEN 401
    ELSE IF out \in {"quota429", "rate429"} THEN 429
    ELSE IF out = "error" THEN 500
    ELSE IF out = "empty" THEN 200
    ELSE 0

\* text.includes('quota_exceeded') || text.includes('quota')
QuotaText(out) == out \in {"quota401", "quota429"}

\* SetsQuota for the responses that carry the quota text only
SetsQuota_TextOnly(out) == Status(out) \in {401, 429} /\ QuotaText(out)

\* responses after which sendS2SChunk sets this.quotaExhausted
SetsQuota(out) ==
    \/ Status(out) \in {401, 429} /\ QuotaText(out)
    \/ Status(out) = 429

\* the fetch ends without usable audio: non-2xx, empty body, or a throw
ResponseFail(i, s, out) ==
    LET lp == loops[i][s]
        nx == AfterSend(i, s, lp, activeS2S, loops)
    IN
    /\ lp.pc = "fetch"
    /\ quotaExhausted' = IF SetsQuota(out) THEN now ELSE quotaExhausted
    /\ quotaFailedAt' = IF SetsQuota(out) THEN now ELSE quotaFailedAt
    /\ activeS2S' = nx[1]
    /\ loops' = nx[2]
    /\ last' = Response(i, out, "none", 0, <<>>, 0)
    /\ UNCHANGED <<envVars, connVars, regVars, lastSuccessfulCall, taskVars, now, storeVars>>

CaptureOutcomes == {"nodata", "ok", "InvalidState", "captureFailed", "other"}

\* SourceGone that never sees the torn-down source
SourceGone_Never(i, lp) == FALSE

\* "!route.source" of the route object sendS2SChunk read before the fetch
SourceGone(i, lp) == lp.route \in nulled[i]

\* the checks made before each captureFrame
CaptureBlocked(i, lp) ==
    \/ routes[i] = NoRoute
    \/ SourceGone(i, lp)
    \/ roomState # "connected"
    \/ routes[i].chan \in nulled[i]

\* WantsRecreate without the recently-recreated check
WantsRecreate_NoDebounce(i, cap) ==
    cap \in {"InvalidState", "captureFailed"}

\* the capture error makes sendS2SChunk try a route recreation
WantsRecreate(i, cap) ==
    /\ cap \in {"InvalidState", "captureFailed"}
    /\ i \notin recentlyRecreated

CaptureFailures == {"InvalidState", "captureFailed", "other"}

\* CaptureLoop that goes on to the next frame after a failed capture
RECURSIVE CaptureLoop_SkipsFailed(_, _, _, _)
CaptureLoop_SkipsFailed(f, n, failAt, blocked) ==
    IF f > n \/ blocked THEN <<>>
    ELSE IF f = failAt THEN CaptureLoop_SkipsFailed(f + 1, n, failAt, blocked)
    ELSE <<f>> \o CaptureLoop_SkipsFailed(f + 1, n, failAt, blocked)

\* the 20 ms frame loop of sendS2SChunk from frame f of n on: the frames it
\* captures before it ends or breaks (at a failed check, or when captureFrame
\* throws at frame failAt)
RECURSIVE CaptureLoop(_, _, _, _)
CaptureLoop(f, n, failAt, blocked) ==
    IF f > n \/ blocked THEN <<>>
    ELSE IF f = failAt THEN <<>>
    ELSE <<f>> \o CaptureLoop(f + 1, n, failAt, blocked)

\* the fetch returned 2xx with a body of n whole frames; they are captured
\* with outcome cap, a failure being thrown at frame k
ResponseOkAt(i, s, cap, n, k) ==
    LET lp == loops[i][s]
        failed == ~CaptureBlocked(i, lp) /\ cap \in CaptureFailures
        frames == IF SourceGone(i, lp) THEN <<>>
                  ELSE CaptureLoop(1, n, k, CaptureBlocked(i, lp))
        recreates == failed /\ WantsRecreate(i, cap)
        awaits == recreates /\ participantVoices[i] # NoVoice
        act1 == IF failed /\ cap = "InvalidState" THEN activeS2S \ {i}
                ELSE activeS2S
        nx == AfterSend(i, s, lp, act1, loops)
    IN
    /\ lp.pc = "fetch"
    /\ (cap = "nodata") = (n = 0)
    /\ IF cap \in CaptureFailures THEN k \in 1..n ELSE k = 0
    /\ recentlyRecreated' = IF recreates THEN recentlyRecreated \cup {i}
                            ELSE recentlyRecreated
    /\ IF SourceGone(i, lp)
       THEN \* "Route source no longer available": plain return
            /\ activeS2S' = AfterSend(i, s, lp, activeS2S, loops)[1]
            /\ loops' = AfterSend(i, s, lp, activeS2S, loops)[2]
            /\ UNCHANGED quotaVars
       ELSE IF awaits
       THEN \* await recreateRouteForParticipant: awaiting the unpublish
            /\ loops' = [loops EXCEPT ![i][s] =
                           [lp EXCEPT !.pc = "recreate_unpub", !.err = cap,
                                      !.old = routes[i].chan,
                                      !.voiceInfo = participantVoices[i]]]
            /\ UNCHANGED <<activeS2S, quotaVars>>
       ELSE /\ activeS2S' = nx[1]
            /\ loops' = nx[2]
            /\ lastSuccessfulCall' = now
            /\ quotaExhausted' = Null
            /\ UNCHANGED quotaFailedAt
    /\ last' = Response(i, IF failed THEN cap ELSE "ok", cap,
                         IF cap # "nodata" /\ ~CaptureBlocked(i, lp)
                         THEN lp.route ELSE 0,
                         frames, n)
    /\ UNCHANGED <<envVars, connVars, regVars, retryPending, joins, leaves, now, storeVars>>

\* the fetch returned 2xx with a body of one frame (none for "nodata")
ResponseOk(i, s, cap) ==
    ResponseOkAt(i, s, cap, IF cap = "nodata" THEN 0 ELSE 1,
                 IF cap \in CaptureFailures THEN 1 ELSE 0)

\* recreateRouteForParticipant: the unpublish of the old track ended (ok or
\* not); the old entry is deleted and the new track's publish is awaited
RecreateUnpublished(i, s, ok) ==
    LET lp == loops[i][s] IN
    /\ lp.pc = "recreate_unpub"
    /\ chanCount[i] < MaxChan
    /\ ok => roomState = "connected"
    /\ published' = IF ok THEN [published EXCEPT ![i] = @ \ {lp.old}]
                    ELSE published
    /\ routes' = [routes EXCEPT ![i] = NoRoute]
    /\ chanCount' = [chanCount EXCEPT ![i] = @ + 1]
    /\ loops' = [loops EXCEPT ![i][s] =
                   [lp EXCEPT !.pc = "recreate_pub", !.newChan = chanCount[i] + 1]]
    /\ last' = Event("recreate_unpub", i, ok)
    /\ UNCHANGED <<roomState, present, hasTrack, connVars, participantVoices,
                   nulled, activeS2S, quotaVars, taskVars, now, storeVars>>

\* RecreatedRoute falling back to the default voice
RecreatedRoute_DefaultVoice(lp) == [chan |-> lp.newChan, voiceId |-> "default"]

\* the route recreateRouteForParticipant stores when its publish succeeded
RecreatedRoute(lp) == [chan |-> lp.newChan, voiceId |-> lp.voiceInfo]

\* recreateRouteForParticipant: the publish of the new track ended; control
\* returns to sendS2SChunk, which rethrows the capture error and finishes
RecreatePublished(i, s, ok) ==
    LET lp == loops[i][s]
        act1 == IF lp.err = "InvalidState" THEN activeS2S \ {i} ELSE activeS2S
        nx == AfterSend(i, s, [lp EXCEPT !.err = "none", !.old = 0,
                                         !.newChan = 0, !.voiceInfo = NoVoice],
                        act1, loops)
    IN
    /\ lp.pc = "recreate_pub"
    /\ ok => roomState = "connected"
    /\ published' = IF ok THEN [published EXCEPT ![i] = @ \cup {lp.newChan}]
                    ELSE published
    /\ routes' = IF ok THEN [routes EXCEPT ![i] = RecreatedRoute(lp)] ELSE routes
    /\ activeS2S' = nx[1]
    /\ loops' = nx[2]
    /\ lastSuccessfulCall' = now
    /\ quotaExhausted' = Null
    /\ UNCHANGED quotaFailedAt
    /\ last' = Event("recreated", i,
                     [ok |-> ok, chan |-> lp.newChan, voiceId |-> lp.voiceInfo])
    /\ UNCHANGED <<roomState, present, hasTrack, connVars, participantVoices,
                   nulled, chanCount, taskVars, now, storeVars>>

\* RecreatedExpire whose timer is dropped when the participant has left
RecreatedExpire_OnlyIfPresent(i) ==
    /\ i \in recentlyRecreated
    /\ i \in present
    /\ recentlyRecreated' = recentlyRecreated \ {i}
    /\ last' = Event("expire", i, FALSE)
    /\ UNCHANGED <<envVars, connVars, regVars, streamVars, quotaVars,
                   retryPending, joins, leaves, now, storeVars>>

\* the 5 s timer set when the identity was marked recently recreated
RecreatedExpire(i) ==
    /\ i \in recentlyRecreated
    /\ recentlyRecreated' = recentlyRecreated \ {i}
    /\ last' = Event("expire", i, FALSE)
    /\ UNCHANGED <<envVars, connVars, regVars, streamVars, quotaVars,
                   retryPending, joins, leaves, now, storeVars>>

----------------------------------------------------------------------------
(* Session: connect, disconnect, reconnect *)

NewJoin(i, enum) ==
    [id |-> i, pc |-> "lookup", enum |-> enum, voice |-> NoVoice, chan |-> 0]

\* connectToRoom up to "await this.room.connect": a new Room, with its
\* listeners, replaces this.room
ConnectToRoom ==
    /\ roomState' = "connecting"
    /\ present' = {}
    /\ hasTrack' = {}
    /\ published' = [i \in Ids |-> {}]
    /\ connPc' = "connecting"
    /\ enumQueue' = <<>>

\* main() calls connectToRoom
ConnectStart ==
    /\ connPc = "idle"
    /\ ConnectToRoom
    /\ last' = Event("connect", "-", FALSE)
    /\ UNCHANGED <<reconnectTimer, regVars, streamVars, quotaVars, taskVars, now, storeVars>>

\* room.connect resolved with the participants in order q already present;
\* the enumeration awaits handleParticipantConnected of the first one
ConnectOk(q) ==
    /\ connPc = "connecting"
    /\ roomState' = "connected"
    /\ present' = {q[k] : k \in 1..Len(q)}
    /\ IF q = <<>>
       THEN /\ connPc' = "done"
            /\ UNCHANGED <<enumQueue, joins>>
       ELSE /\ MayAwait
            /\ connPc' = "enum"
            /\ enumQueue' = Tail(q)
            /\ joins' = joins \cup {NewJoin(Head(q), TRUE)}
    /\ last' = Event("connected", "-", q)
    /\ UNCHANGED <<hasTrack, published, reconnectTimer, regVars, streamVars,
                   quotaVars, recentlyRecreated, retryPending, leaves, now, storeVars>>

\* room.connect rejected: connectToRoom rethrows
ConnectFail ==
    /\ connPc = "connecting"
    /\ roomState' = "disconnected"
    /\ connPc' = "failed"
    /\ last' = Event("connect_failed", "-", FALSE)
    /\ UNCHANGED <<present, hasTrack, published, enumQueue, reconnectTimer,
                   regVars, streamVars, quotaVars, taskVars, now, storeVars>>

DisconnectReasons == {"connection_lost", "other"}

\* ReconnectWanted for every reason
ReconnectWanted_Always(reason) == TRUE

\* "if (reason === 1)": only a lost connection is retried
ReconnectWanted(reason) == reason = "connection_lost"

\* RoomEvent.Disconnected handler
Disconnected(reason) ==
    /\ roomState = "connected"
    /\ roomState' = "disconnected"
    /\ present' = {}
    /\ hasTrack' = {}
    /\ published' = [i \in Ids |-> {}]
    /\ enumQueue' = <<>>
    /\ activeS2S' = {}
    /\ reconnectTimer' = IF ReconnectWanted(reason) THEN TRUE ELSE reconnectTimer
    /\ last' = Event("disconnected", "-", reason)
    /\ UNCHANGED <<connPc, regVars, loops, quotaVars, taskVars, now, storeVars>>

\* the reconnect timer fires: connectToRoom(this.roomName)
ReconnectFire ==
    /\ reconnectTimer
    /\ connPc \in {"done", "failed"}
    /\ reconnectTimer' = FALSE
    /\ ConnectToRoom
    /\ last' = Event("reconnect", "-", FALSE)
    /\ UNCHANGED <<regVars, streamVars, quotaVars, taskVars, now, storeVars>>

\* process.on('uncaughtException') with an InvalidState capture message
UncaughtInvalidState ==
    /\ roomState # "none"
    /\ activeS2S # {}
    /\ activeS2S' = {}
    /\ last' = Event("uncaught", "-", FALSE)
    /\ UNCHANGED <<envVars, connVars, regVars, loops, quotaVars, taskVars, now, storeVars>>

----------------------------------------------------------------------------
(* Participant joined: handleParticipantConnected *)

\* RoomEvent.ParticipantConnected: the handler starts (and does not await)
\* handleParticipantConnected, which awaits the voice lookup
ParticipantConnected(i) ==
    /\ roomState = "connected"
    /\ i \notin present
    /\ NewJoin(i, FALSE) \notin joins
    /\ MayAwait
    /\ present' = present \cup {i}
    /\ enumQueue' = IF connPc = "enum" THEN Append(enumQueue, i) ELSE enumQueue
    /\ joins' = joins \cup {NewJoin(i, FALSE)}
    /\ last' = Event("joined", i, FALSE)
    /\ UNCHANGED <<roomState, hasTrack, published, connPc, reconnectTimer,
                   regVars, streamVars, quotaVars, recentlyRecreated,
                   retryPending, leaves, now, storeVars>>

\* the ways the voice lookup ends: a voice selection, a 2xx without one, a
\* non-2xx, a 2xx whose body is not JSON, a rejected fetch
LookupOutcomes == {"custom", "empty", "not_ok", "bad_json", "rejected"}

\* VoiceFor that stores nothing when the lookup gave no selection
VoiceFor_NoFallback(out) == IF out = "custom" THEN "custom" ELSE NoVoice

\* the voiceId loadParticipantVoice stores for a lookup outcome
VoiceFor(out) == IF out = "custom" THEN "custom" ELSE "default"

\* loadParticipantVoice got its answer and stored the voice;
\* setupRouteForParticipant creates the source and track and awaits
\* publishTrack
JoinLookupDone(j, out) ==
    LET v == VoiceFor(out) IN
    /\ j \in joins
    /\ j.pc = "lookup"
    /\ chanCount[j.id] < MaxChan
    /\ participantVoices' = [participantVoices EXCEPT ![j.id] = v]
    /\ chanCount' = [chanCount EXCEPT ![j.id] = @ + 1]
    /\ joins' = (joins \ {j}) \cup
                {[j EXCEPT !.pc = "publish", !.voice = v,
                           !.chan = chanCount[j.id] + 1]}
    /\ last' = Event("voice", j.id, out)
    /\ UNCHANGED <<envVars, connVars, routes, nulled, streamVars, quotaVars,
                   recentlyRecreated, retryPending, leaves, now, storeVars>>

\* handleParticipantConnected returned; a call made by connectToRoom's
\* enumeration lets it go on to the next participant
JoinReturns(j) ==
    IF j.enum /\ connPc = "enum"
    THEN IF enumQueue = <<>>
         THEN /\ connPc' = "done"
              /\ joins' = joins \ {j}
              /\ UNCHANGED enumQueue
         ELSE /\ joins' = (joins \ {j}) \cup {NewJoin(Head(enumQueue), TRUE)}
              /\ enumQueue' = Tail(enumQueue)
              /\ UNCHANGED connPc
    ELSE /\ joins' = joins \ {j}
         /\ UNCHANGED <<connPc, enumQueue>>

\* SetupRoute storing the default voice instead of the assigned one
SetupRoute_DefaultVoice(j) == [chan |-> j.chan, voiceId |-> "default"]

\* the route setupRouteForParticipant stores
SetupRoute(j) == [chan |-> j.chan, voiceId |-> j.voice]

\* startAudioStreamIfTrackExists, given the routes map it reads
StartIfTrackExists(i, rts) ==
    IF roomState # "none" /\ i \in present /\ i \in hasTrack /\ i \notin activeS2S
    THEN StartAudioStream(i, activeS2S, loops, rts)
    ELSE <<activeS2S, loops>>

\* publishTrack resolved: the route is stored, then startAudioStreamIfTrackExists
JoinPublishOk(j) ==
    LET rts == [routes EXCEPT ![j.id] = SetupRoute(j)]
        st == StartIfTrackExists(j.id, rts)
    IN
    /\ j \in joins
    /\ j.pc = "publish"
    /\ roomState = "connected"
    /\ SlotFree(j.id)
    /\ published' = [published EXCEPT ![j.id] = @ \cup {j.chan}]
    /\ routes' = rts
    /\ activeS2S' = st[1]
    /\ loops' = st[2]
    /\ JoinReturns(j)
    /\ last' = Event("route", j.id, [chan |-> j.chan, voiceId |-> j.voice])
    /\ UNCHANGED <<roomState, present, hasTrack, reconnectTimer,
                   participantVoices, nulled, chanCount, quotaVars,
                   recentlyRecreated, retryPending, leaves, now, storeVars>>

\* PublishFailRoutes storing the route before the publish is known to succeed
PublishFailRoutes_StoredEarly(j) ==
    [routes EXCEPT ![j.id] = [chan |-> j.chan, voiceId |-> j.voice]]

\* the routes setupRouteForParticipant leaves when publishTrack rejected
PublishFailRoutes(j) == routes

\* publishTrack rejected: the catch block logs
JoinPublishFail(j) ==
    /\ j \in joins
    /\ j.pc = "publish"
    /\ routes' = PublishFailRoutes(j)
    /\ JoinReturns(j)
    /\ last' = Event("route_failed", j.id, [chan |-> j.chan, voiceId |-> j.voice])
    /\ UNCHANGED <<envVars, reconnectTimer, participantVoices, nulled,
                   chanCount, streamVars, quotaVars, recentlyRecreated,
                   retryPending, leaves, now, storeVars>>

----------------------------------------------------------------------------
(* Track subscribed *)

\* RouteMissing that never defers the start
RouteMissing_Never(i) == FALSE

\* "if (!route)" of the TrackSubscribed handler: the start is deferred
RouteMissing(i) == routes[i] = NoRoute

\* RoomEvent.TrackSubscribed handler for an audio track
TrackSubscribed(i) ==
    LET st == StartAudioStream(i, activeS2S, loops, routes) IN
    /\ roomState = "connected"
    /\ i \in present
    /\ SlotFree(i)
    /\ hasTrack' = hasTrack \cup {i}
    /\ IF StartsWithAudioWorker(i)
       THEN UNCHANGED <<streamVars, retryPending>>
       ELSE IF RouteMissing(i)
       THEN /\ retryPending' = retryPending \cup {i}
            /\ UNCHANGED streamVars
       ELSE /\ activeS2S' = st[1]
            /\ loops' = st[2]
            /\ UNCHANGED retryPending
    /\ last' = Event("track", i, i \in activeS2S)
    /\ UNCHANGED <<roomState, present, published, connVars, regVars, quotaVars,
                   recentlyRecreated, joins, leaves, now, storeVars>>

\* the 1 s retry timer of the TrackSubscribed handler fires
RetryFire(i) ==
    LET st == StartAudioStream(i, activeS2S, loops, routes) IN
    /\ i \in retryPending
    /\ SlotFree(i)
    /\ retryPending' = retryPending \ {i}
    /\ IF routes[i] # NoRoute
       THEN /\ activeS2S' = st[1]
            /\ loops' = st[2]
       ELSE UNCHANGED streamVars
    /\ last' = Event("retry", i, i \in activeS2S)
    /\ UNCHANGED <<envVars, connVars, regVars, quotaVars, recentlyRecreated,
                   joins, leaves, now, storeVars>>

----------------------------------------------------------------------------
(* Participant left: handleParticipantDisconnected *)

\* the participant has no route, no relay loop and no voice assignment
NoActiveState(i) ==
    /\ routes[i] = NoRoute
    /\ i \notin activeS2S
    /\ Running(i) = {}
    /\ participantVoices[i] = NoVoice

\* the worker's own fields (everything but the room and the clock)
workerVars == <<participantVoices, routes, nulled, activeS2S, loops,
                quotaExhausted, lastSuccessfulCall, recentlyRecreated,
                retryPending, joins, leaves, reconnectTimer>>

\* LeaveFindsRoute without the check
LeaveFindsRoute_Unchecked(i) == TRUE

\* "if (route)" of handleParticipantDisconnected
LeaveFindsRoute(i) == routes[i] # NoRoute

\* RoomEvent.ParticipantDisconnected: handleParticipantDisconnected up to its
\* await of unpublishTrack, or to its end when there is no route
ParticipantDisconnected(i) ==
    /\ roomState = "connected"
    /\ i \in present
    /\ present' = present \ {i}
    /\ hasTrack' = hasTrack \ {i}
    /\ enumQueue' = SelectSeq(enumQueue, LAMBDA x : x # i)
    /\ activeS2S' = activeS2S \ {i}
    /\ IF LeaveFindsRoute(i)
       THEN /\ MayAwait
            /\ nulled' = [nulled EXCEPT ![i] = @ \cup {routes[i].chan}]
            /\ leaves' = leaves \cup {[id |-> i, chan |-> routes[i].chan]}
            /\ UNCHANGED participantVoices
       ELSE /\ participantVoices' = [participantVoices EXCEPT ![i] = NoVoice]
            /\ UNCHANGED <<nulled, leaves>>
    /\ last' = Event("left", i, NoActiveState(i))
    /\ UNCHANGED <<roomState, published, connPc, reconnectTimer, routes,
                   chanCount, loops, quotaVars, recentlyRecreated, retryPending,
                   joins, now, storeVars>>

\* handleParticipantDisconnected after its unpublishTrack ended
LeaveUnpublished(t, ok) ==
    /\ t \in leaves
    /\ ok => roomState = "connected"
    /\ leaves' = leaves \ {t}
    /\ published' = IF ok THEN [published EXCEPT ![t.id] = @ \ {t.chan}]
                    ELSE published
    /\ routes' = IF ok THEN [routes EXCEPT ![t.id] = NoRoute] ELSE routes
    /\ participantVoices' = [participantVoices EXCEPT ![t.id] = NoVoice]
    /\ last' = Event("left_done", t.id, ok)
    /\ UNCHANGED <<roomState, present, hasTrack, connVars, nulled, chanCount,
                   streamVars, quotaVars, recentlyRecreated, retryPending,
                   joins, now, storeVars>>

----------------------------------------------------------------------------
(* Timers and the clock *)

\* the setInterval callback of setupQuotaResetTimer
QuotaTimer ==
    /\ quotaExhausted' =
          IF quotaExhausted # Null /\ now - quotaExhausted > QUOTA_TIMER_EXPIRY_MS
          THEN Null ELSE quotaExhausted
    /\ last' = Event("quota_timer", "-", FALSE)
    /\ UNCHANGED <<envVars, connVars, regVars, streamVars, lastSuccessfulCall,
                   quotaFailedAt, taskVars, now, storeVars>>

\* d milliseconds pass
Tick(d, horizon) ==
    /\ now + d <= StartTime + horizon
    /\ now' = now + d
    /\ last' = Event("tick", "-", FALSE)
    /\ UNCHANGED <<envVars, connVars, regVars, streamVars, quotaVars, taskVars,
                   storeVars>>

----------------------------------------------------------------------------
(* Lifecycle specification: one session, its participants and relay loops. *)
(* Frames carry a full chunk of speech; the service does not report quota. *)

RECURSIVE Orders(_)
Orders(S) ==
    IF S = {} THEN {<<>>}
    ELSE UNION {{<<x>> \o q : q \in Orders(S \ {x})} : x \in S}

LoudFrame == [k \in 1..samplesPerChunk |-> 1000]

Next ==
    \/ ConnectStart
    \/ \E P \in SUBSET LifeIds : \E q \in Orders(P) : ConnectOk(q)
    \/ ConnectFail
    \/ \E r \in DisconnectReasons : Disconnected(r)
    \/ ReconnectFire
    \/ UncaughtInvalidState
    \/ \E i \in LifeIds : ParticipantConnected(i)
    \/ \E j \in joins : \E out \in {"custom", "rejected"} : JoinLookupDone(j, out)
    \/ \E j \in joins : JoinPublishOk(j)
    \/ \E j \in joins : JoinPublishFail(j)
    \/ \E i \in LifeIds : TrackSubscribed(i)
    \/ \E i \in LifeIds : RetryFire(i)
    \/ \E i \in LifeIds : ParticipantDisconnected(i)
    \/ \E t \in leaves : \E ok \in BOOLEAN : LeaveUnpublished(t, ok)
    \/ \E i \in LifeIds : \E s \in Slots : Frame(i, s, LoudFrame, MaxLifeFrames)
    \/ \E i \in LifeIds : \E s \in Slots : StreamEnd(i, s)
    \/ \E i \in LifeIds : \E s \in Slots : ResponseFail(i, s, "error")
    \/ \E i \in LifeIds : \E s \in Slots : \E cap \in CaptureOutcomes :
          ResponseOk(i, s, cap)
    \/ \E i \in LifeIds : \E s \in Slots : \E ok \in BOOLEAN :
          RecreateUnpublished(i, s, ok)
    \/ \E i \in LifeIds : \E s \in Slots : \E ok \in BOOLEAN :
          RecreatePublished(i, s, ok)
    \/ \E i \in LifeIds : RecreatedExpire(i)

Spec == Init /\ [][Next]_vars

----------------------------------------------------------------------------
(* Streaming state: the session is connected, every participant has joined, *)
(* has its route, and its relay loop is waiting for its first frame.        *)

Streaming ==
    /\ roomState = "connected"
    /\ present = Speakers
    /\ hasTrack = Speakers
    /\ published = [i \in Ids |-> IF i \in Speakers THEN {1} ELSE {}]
    /\ connPc = "done"
    /\ enumQueue = <<>>
    /\ reconnectTimer = FALSE
    /\ participantVoices = [i \in Ids |-> IF i = "A" THEN "custom"
                                          ELSE IF i = "B" THEN "default"
                                          ELSE NoVoice]
    /\ routes = [i \in Ids |-> IF i \in Speakers
                               THEN [chan |-> 1, voiceId |-> participantVoices[i]]
                               ELSE NoRoute]
    /\ nulled = [i \in Ids |-> {}]
    /\ chanCount = [i \in Ids |-> IF i \in Speakers THEN 1 ELSE 0]
    /\ activeS2S = Speakers
    /\ loops = [i \in Ids |-> [s \in Slots |->
                  IF i \in Speakers /\ s = 1 THEN NewLoop ELSE IdleLoop]]
    /\ quotaExhausted = Null
    /\ lastSuccessfulCall = StartTime
    /\ recentlyRecreated = {}
    /\ retryPending = {}
    /\ joins = {}
    /\ leaves = {}
    /\ now = StartTime
    /\ quotaFailedAt = Null
    /\ userVoiceSelections = EmptyStore
    /\ voiceHistory = EmptyStore
    /\ last = Event("init", "-", FALSE)

----------------------------------------------------------------------------
(* Quota specification: two speakers stream full chunks of speech while the *)
(* service answers with every outcome and the clock advances by the period  *)
(* of the quota reset timer.                                                *)

NextQuota ==
    \/ \E i \in Speakers : Frame(i, 1, LoudFrame, MaxFrames)
    \/ \E i \in Speakers : \E out \in FailureOutcomes : ResponseFail(i, 1, out)
    \/ \E i \in Speakers : \E cap \in {"ok", "other"} : ResponseOk(i, 1, cap)
    \/ QuotaTimer
    \/ Tick(QUOTA_TIMER_INTERVAL_MS, MaxQuotaTicks * QUOTA_TIMER_INTERVAL_MS)

SpecQuota == Streaming /\ [][NextQuota]_vars

----------------------------------------------------------------------------
(* Stream specification: two speakers push frames of a few samples each,    *)
(* around the silence threshold, while the clock advances by half the       *)
(* minimum chunk interval.                                                  *)

\* the frames a speaker's inbound stream may deliver
StreamFrames(i) ==
    IF i = "A" THEN {<<>>, <<58>>, <<59, 58>>, <<1000, 0, 0>>}
    ELSE {[k \in 1..samplesPerChunk |-> -1000]}

NextStream ==
    \/ \E i \in Speakers : \E src \in StreamFrames(i) : Frame(i, 1, src, MaxFrames)
    \/ \E i \in Speakers : StreamEnd(i, 1)
    \/ \E i \in Speakers : ResponseFail(i, 1, "error")
    \/ \E i \in Speakers : ResponseOk(i, 1, "ok")
    \/ Tick(minChunkInterval \div 2, MaxStreamTicks * (minChunkInterval \div 2))

SpecStream == Streaming /\ [][NextStream]_vars

----------------------------------------------------------------------------
(* Failure specification: one speaker streams full and three-quarter chunks *)
(* of speech until its stream ends, the service and the frame capture end   *)
(* with every outcome, its route is recreated, it leaves, and the clock     *)
(* advances by the period of the quota reset timer.                         *)

ShortFrame == [k \in 1..(samplesPerChunk - 1) |-> 1000]

NextFail ==
    \/ \E i \in LifeIds : \E src \in {LoudFrame, ShortFrame} :
          Frame(i, 1, src, MaxFailFrames)
    \/ \E i \in LifeIds : StreamEnd(i, 1)
    \/ \E i \in LifeIds : \E out \in FailureOutcomes : ResponseFail(i, 1, out)
    \/ \E i \in LifeIds : \E cap \in CaptureOutcomes : ResponseOk(i, 1, cap)
    \/ \E i \in LifeIds : \E ok \in BOOLEAN : RecreateUnpublished(i, 1, ok)
    \/ \E i \in LifeIds : \E ok \in BOOLEAN : RecreatePublished(i, 1, ok)
    \/ \E i \in LifeIds : RecreatedExpire(i)
    \/ \E i \in LifeIds : ParticipantDisconnected(i)
    \/ \E t \in leaves : \E ok \in BOOLEAN : LeaveUnpublished(t, ok)
    \/ QuotaTimer
    \/ Tick(QUOTA_TIMER_INTERVAL_MS, MaxFailTicks * QUOTA_TIMER_INTERVAL_MS)

SpecFail == Streaming /\ [][NextFail]_vars

----------------------------------------------------------------------------
(* Join specification: two participants are in the room at connect time or  *)
(* join later; their voice lookups and publishes end with every outcome and *)
(* their tracks are subscribed.                                             *)

NextJoin ==
    \/ ConnectStart
    \/ \E P \in SUBSET Speakers : \E q \in Orders(P) : ConnectOk(q)
    \/ ConnectFail
    \/ \E i \in Speakers : ParticipantConnected(i)
    \/ \E j \in joins : \E out \in LookupOutcomes : JoinLookupDone(j, out)
    \/ \E j \in joins : JoinPublishOk(j)
    \/ \E j \in joins : JoinPublishFail(j)
    \/ \E i \in Speakers : TrackSubscribed(i)

SpecJoin == Init /\ [][NextJoin]_vars

----------------------------------------------------------------------------
(* Capture specification: one speaker streams full chunks of speech; the    *)
(* service answers with up to MaxOutFrames frames, whose capture may throw  *)
(* at any frame; the route is recreated, the speaker may leave, and the     *)
(* clock advances by the minimum chunk interval.                            *)

NextCapture ==
    \/ \E i \in LifeIds : Frame(i, 1, LoudFrame, MaxFrames)
    \/ \E i \in LifeIds : \E cap \in CaptureOutcomes :
          \E n \in 0..MaxOutFrames : \E k \in 0..n :
             ResponseOkAt(i, 1, cap, n, k)
    \/ \E i \in LifeIds : \E ok \in BOOLEAN : RecreateUnpublished(i, 1, ok)
    \/ \E i \in LifeIds : \E ok \in BOOLEAN : RecreatePublished(i, 1, ok)
    \/ \E i \in LifeIds : RecreatedExpire(i)
    \/ \E i \in LifeIds : ParticipantDisconnected(i)
    \/ \E t \in leaves : \E ok \in BOOLEAN : LeaveUnpublished(t, ok)
    \/ Tick(minChunkInterval, MaxStreamTicks * minChunkInterval)

SpecCapture == Streaming /\ [][NextCapture]_vars

\* the timers set with setTimeout fire
SpecCaptureFair ==
    SpecCapture /\ \A i \in LifeIds : WF_vars(RecreatedExpire(i))

----------------------------------------------------------------------------
(* Self-loop specification: the participants of the session are remote      *)
(* identities that start with the worker's own identity; they join, their   *)
(* tracks are subscribed and their audio arrives, and nobody leaves.        *)

NextSelf ==
    \/ ConnectStart
    \/ \E P \in SUBSET SelfIds : \E q \in Orders(P) : ConnectOk(q)
    \/ \E i \in SelfIds : ParticipantConnected(i)
    \/ \E j \in joins : \E out \in {"custom", "rejected"} : JoinLookupDone(j, out)
    \/ \E j \in joins : JoinPublishOk(j)
    \/ \E j \in joins : JoinPublishFail(j)
    \/ \E i \in SelfIds : TrackSubscribed(i)
    \/ \E i \in SelfIds : \E s \in Slots : Frame(i, s, LoudFrame, MaxLifeFrames)
    \/ \E i \in SelfIds : \E s \in Slots : StreamEnd(i, s)
    \/ \E i \in SelfIds : \E s \in Slots : ResponseFail(i, s, "error")
    \/ \E i \in SelfIds : \E s \in Slots : ResponseOk(i, s, "ok")

SpecSelf == Init /\ [][NextSelf]_vars

----------------------------------------------------------------------------
(* Control plane: the voice store of the express server                     *)

\* SetVoiceRejected that only requires the userId
SetVoiceRejected_UserIdOnly(userId, voiceId) == ~Truthy(userId)

\* "if (!userId || !voiceId)" of POST /set-voice
SetVoiceRejected(userId, voiceId) == ~Truthy(userId) \/ ~Truthy(voiceId)

\* POST /set-voice with the body fields userId and voiceId
SetVoice(userId, voiceId) ==
    LET status == IF SetVoiceRejected(userId, voiceId) THEN 400 ELSE 200 IN
    /\ userVoiceSelections' =
          IF status = 200
          THEN [userVoiceSelections EXCEPT ![userId] = voiceId]
          ELSE userVoiceSelections
    /\ voiceHistory' = IF status = 200
                       THEN [voiceHistory EXCEPT ![userId] = voiceId]
                       ELSE voiceHistory
    /\ last' = Event("set_voice", userId, [status |-> status, voiceId |-> voiceId])
    /\ UNCHANGED <<envVars, connVars, regVars, streamVars, quotaVars, taskVars, now>>

\* GET /get-voice/:userId
GetVoice(param) ==
    LET voiceSelection == userVoiceSelections[Str(param)] IN
    /\ last' = Event("get_voice", Str(param),
                     [status |-> 200,
                      voiceSelection |-> IF ~Truthy(voiceSelection)
                                         THEN DEFAULT_VOICE ELSE voiceSelection])
    /\ UNCHANGED <<envVars, connVars, regVars, streamVars, quotaVars, taskVars,
                   now, storeVars>>

NextVoice ==
    \/ \E userId \in BodyUserIds : \E voiceId \in BodyVoiceIds :
          SetVoice(userId, voiceId)
    \/ \E param \in ParamUserIds : GetVoice(param)

SpecVoice == Init /\ [][NextVoice]_vars

----------------------------------------------------------------------------
(* Claims *)

\* C1: in every reachable state, every identity has at most one running
\* relay loop.
C1_AtMostOneLoop == \A i \in Ids : Cardinality(Running(i)) <= 1

\* C2: a start request (track-subscribed event, its deferred retry, or the
\* existing-track check after route creation) for an identity that is in the
\* active-stream set starts no loop and leaves the active-stream set; the
\* event and the retry also leave the routes and the voice assignments
\* unchanged.
C2_DuplicateStartNoOp ==
    [][/\ \A i \in Ids :
            (i \in activeS2S /\ (TrackSubscribed(i) \/ RetryFire(i)))
               => UNCHANGED <<activeS2S, loops, routes, participantVoices>>
       /\ \A j \in joins :
            (j.id \in activeS2S /\ JoinPublishOk(j))
               => UNCHANGED <<activeS2S, loops>>]_vars

\* C2 witness: a track-subscribed event was handled for an identity whose
\* relay loop was running and which was in the active-stream set.
C2_Witness ==
    /\ last.op = "track"
    /\ last.info = TRUE
    /\ Running(last.id) # {}

\* C3: every identity has at most one published output channel, and every
\* published channel is the one of the identity's registered route.
C3_NoDanglingPublication ==
    \A i \in Ids :
        /\ Cardinality(published[i]) <= 1
        /\ \A c \in published[i] : routes[i] # NoRoute /\ routes[i].chan = c

C5_FailedPublishRegistersNothing ==
    [][\A j \in joins :
          JoinPublishFail(j) => UNCHANGED <<routes, activeS2S, loops>>]_vars

\* C5 witness: a publish of createRoute failed and the identity has no route.
C5_Witness ==
    /\ last.op = "route_failed"
    /\ routes[last.id] = NoRoute

\* C6: participant-left handling for an identity with no route, no relay
\* loop and no voice assignment changes nothing in the worker and issues no
\* unpublish.
C6_LeftWithoutStateNoOp ==
    [][\A i \in Ids :
          (NoActiveState(i) /\ ParticipantDisconnected(i))
             => UNCHANGED <<workerVars, published, chanCount>>]_vars

\* C6 witness: a participant left while it had no route, no relay loop and
\* no voice assignment.
C6_Witness ==
    /\ last.op = "left"
    /\ last.info = TRUE

\* the level of the block is below SILENCE_DB: its mean square, relative to
\* full scale, is below 10^(SILENCE_DB/10)
BelowSilence(chunk) ==
    chunk = <<>> \/ SumSquares(chunk) * 100 < MeanSquareX100(SILENCE_DB) * Len(chunk)

\* the relay loops of identity i that are awaiting a transformation response
Fetching(lps, i) == {s \in Slots : lps[i][s].pc = "fetch"}

\* C7: a transformation attempt for a chunk whose level is below the silence
\* threshold issues no request and leaves QuotaState and the
\* last-successful-call timestamp unchanged.
C7_SilentChunkNoRequest ==
    [][(last'.op = "send" /\ BelowSilence(last'.info.chunk))
          => /\ ~last'.info.issued
             /\ Cardinality(Fetching(loops', last'.id))
                   <= Cardinality(Fetching(loops, last'.id))
             /\ UNCHANGED <<quotaExhausted, lastSuccessfulCall>>]_vars

\* C7 witness: a chunk below the threshold was offered for transformation
\* while no other gate (room, route, quota) was closed, and nothing was sent.
C7_Witness ==
    /\ last.op = "send"
    /\ BelowSilence(last.info.chunk)
    /\ ~last.info.issued
    /\ roomState = "connected"
    /\ RouteUsable(last.id)
    /\ quotaExhausted = Null

\* C8: once a quota-classified response has arrived at time T, no request is
\* started before T + cooldown.
C8_NoRequestInCooldown ==
    (last.op = "send" /\ last.info.issued /\ quotaFailedAt # Null)
       => now - quotaFailedAt >= QUOTA_COOLDOWN_MS

\* C9: a transformation attempt made at or after T + cooldown, T being the
\* time of the last quota-classified response, for a chunk of speech, with
\* the route present and the session connected, issues a request, whether or
\* not the reset timer has cleared QuotaState.
C9_ResumesAfterCooldown ==
    [][(/\ last'.op = "send"
        /\ quotaFailedAt # Null
        /\ now - quotaFailedAt >= QUOTA_COOLDOWN_MS
        /\ ~BelowSilence(last'.info.chunk)
        /\ RouteUsable(last'.id)
        /\ roomState = "connected")
          => /\ last'.info.issued
             /\ Cardinality(Fetching(loops', last'.id))
                   > Cardinality(Fetching(loops, last'.id))]_vars

\* C9 witness: a request was issued exactly when the cooldown had passed,
\* with QuotaState still set (the timer had not cleared it).
C9_Witness ==
    /\ last.op = "send"
    /\ last.info.issued
    /\ quotaExhausted # Null
    /\ now - quotaExhausted = QUOTA_COOLDOWN_MS

RECURSIVE Concat(_)
\* the blocks of a sequence, one after another
Concat(blocks) ==
    IF blocks = <<>> THEN <<>> ELSE Head(blocks) \o Concat(Tail(blocks))

\* C10: for every relay loop, the chunks drained so far followed by the
\* samples still buffered are the samples pushed to that loop, in arrival
\* order.
C10_SamplesPreserved ==
    \A i \in Ids : \A s \in Slots :
        loops[i][s].pc # "idle" =>
            /\ Concat(loops[i][s].drained) \o Concat(loops[i][s].buffers)
                  = loops[i][s].pushed
            /\ loops[i][s].totalSamples = Len(Concat(loops[i][s].buffers))

\* C10 witness: a loop has drained a chunk merged from several frames and
\* holds a frame pushed after it.
C10_Witness ==
    \E i \in Ids :
        /\ loops[i][1].pc # "idle"
        /\ Len(loops[i][1].drained) >= 1
        /\ Len(loops[i][1].drained[1]) > samplesPerChunk
        /\ loops[i][1].buffers # <<>>

\* the samples a relay loop has been given and has not drained
Buffered(lp) == Len(lp.pushed) - Len(Concat(lp.drained))

\* C11: while frames arrive, a chunk is drained only when the buffered sample
\* count has reached the chunk size and at least the minimum inter-chunk
\* interval has passed since the previous drain of that speaker; a frame that
\* arrives while either condition fails is added to the buffer and nothing
\* is sent.
C11_DrainOnlyWhenReady ==
    [][\A i \in Ids :
          LET lp == loops[i][1]
              total == Buffered(lp) + (Len(loops'[i][1].pushed) - Len(lp.pushed))
              ready == /\ total >= samplesPerChunk
                       /\ now - lp.lastChunkTime >= minChunkInterval
          IN (lp.pc = "frames" /\ last'.id = i)
                => /\ (last'.op = "send" /\ ~last'.info.flush)
                         => ready /\ Len(last'.info.chunk) = total
                   /\ last'.op = "frame"
                         => /\ total > Buffered(lp) => ~ready
                            /\ Buffered(loops'[i][1]) = total
                            /\ Len(loops'[i][1].drained) = Len(lp.drained)
                            /\ Fetching(loops', i) = {}]_vars

\* C11 witness: a frame arrived when the buffer had reached the chunk size
\* but the minimum interval since the previous drain had not passed, and it
\* was kept in the buffer.
C11_Witness ==
    /\ last.op = "frame"
    /\ loops[last.id][1].pc = "frames"
    /\ loops[last.id][1].totalSamples >= samplesPerChunk
    /\ loops[last.id][1].drained # <<>>
    /\ now - loops[last.id][1].lastChunkTime < minChunkInterval

\* C12: at the end of the inbound stream a remainder is discarded without a
\* transformation attempt only if it is shorter than half a chunk (a
\* remainder of exactly half a chunk is sent).
C12_HalfChunkFlushed ==
    last.op = "end" => 2 * last.info < samplesPerChunk

\* the relay loops of identity i that are inside recreateRouteForParticipant
Recreating(lps, i) == {s \in Slots : lps[i][s].pc \in {"recreate_unpub", "recreate_pub"}}

\* C13: a channel-invalid capture failure for an identity that is not marked
\* recently recreated marks it and calls recreateRoute once (the call goes on
\* to its unpublish when the identity has a voice assignment); a
\* channel-invalid capture failure for an identity that is marked calls
\* recreateRoute zero times and leaves the marker, the routes and the
\* publications unchanged.
C13_OneRecreatePerWindow ==
    [][\A i \in Ids :
          (/\ last'.op = "response"
           /\ last'.id = i
           /\ last'.info \in {"InvalidState", "captureFailed"})
             => IF i \in recentlyRecreated
                THEN /\ Cardinality(Recreating(loops', i))
                           = Cardinality(Recreating(loops, i))
                     /\ UNCHANGED <<recentlyRecreated, routes, published, chanCount>>
                ELSE /\ i \in recentlyRecreated'
                     /\ Cardinality(Recreating(loops', i))
                           = Cardinality(Recreating(loops, i))
                             + (IF participantVoices[i] # NoVoice THEN 1 ELSE 0)]_vars

\* C13 witness: a channel-invalid capture failure happened for an identity
\* with a voice assignment while it was marked recently recreated, and no
\* recreation was started.
C13_Witness ==
    /\ last.op = "response"
    /\ last.info \in {"InvalidState", "captureFailed"}
    /\ last.id \in recentlyRecreated
    /\ participantVoices[last.id] # NoVoice
    /\ Recreating(loops, last.id) = {}

\* C14: on connect, voice assignment and route creation for every participant
\* already present are complete before any track-subscribed event of the
\* session is processed: no track-subscribed event is handled while the
\* enumeration of connectToRoom is still under way.
C14_EnumerationBeforeTracks ==
    last.op = "track" => connPc # "enum"

C16_NoRouteAfterLeft ==
    last.op = "left_done" => routes[last.id] = NoRoute

\* C17: a Disconnected event leaves a reconnect timer pending exactly when its
\* reason is connection loss; nothing else schedules a reconnect; every
\* connect attempt after the first is made by the pending timer, which it
\* consumes; and after a failed connect attempt no reconnect is pending.
C17_ReconnectOnlyOnConnectionLoss ==
    [][/\ last'.op = "disconnected"
             => reconnectTimer' = (last'.info = "connection_lost")
       /\ last'.op # "disconnected" => (reconnectTimer' => reconnectTimer)
       /\ (connPc' = "connecting" /\ connPc \notin {"connecting", "idle"})
             => reconnectTimer /\ ~reconnectTimer'
       /\ last'.op = "connect_failed" => ~reconnectTimer']_vars

\* C17 witness: a reconnect attempt made after a session that had a route
\* failed, and no further attempt is scheduled.
C17_Witness ==
    /\ last.op = "connect_failed"
    /\ ~reconnectTimer
    /\ \E i \in Ids : routes[i] # NoRoute

\* C18: nothing survives a reconnect: at the moment a connection is
\* established, before anything has been built for its participants, the
\* worker holds no route, no voice assignment and no running relay loop.
C18_NothingSurvivesReconnect ==
    last.op = "connected" =>
        \A i \in Ids : /\ routes[i] = NoRoute
                       /\ participantVoices[i] = NoVoice
                       /\ Running(i) = {}

\* C19: a relay loop that reaches a chunk boundary after its participant was
\* removed (the participant is gone and its route is missing or unusable)
\* exits, although the inbound stream has not ended.
C19_LoopExitsAfterRemoval ==
    (/\ last.op = "send"
     /\ ~last.info.flush
     /\ last.id \notin present
     /\ ~RouteUsable(last.id))
       => Running(last.id) = {}

\* C20: for every speaker at most one chunk is being transformed or published
\* at any time.
C20_OneChunkInFlight ==
    \A i \in Ids : Cardinality(Fetching(loops, i) \cup Recreating(loops, i)) <= 1

\* C21 as stated: at the deferred retry, if the route is present and no
\* stream was active, a stream is started.
C21_RetryStartsIfRoutePresent ==
    (last.op = "retry" /\ routes[last.id] # NoRoute /\ ~last.info)
       => last.id \in activeS2S

\* C21 amended: a track-subscribed event for an identity with no route starts
\* nothing and leaves one retry pending; the retry is consumed when it fires
\* and schedules nothing; it starts one relay loop if the route is present
\* with a usable output channel and no stream is active, and otherwise
\* starts nothing.
C21_SingleRetry ==
    [][\A i \in Ids :
          /\ (TrackSubscribed(i) /\ routes[i] = NoRoute /\ ~StartsWithAudioWorker(i))
                => i \in retryPending' /\ UNCHANGED <<activeS2S, loops>>
          /\ RetryFire(i)
                => /\ retryPending' = retryPending \ {i}
                   /\ IF RouteUsable(i) /\ i \notin activeS2S
                      THEN /\ i \in activeS2S'
                           /\ Cardinality({s \in Slots : loops'[i][s].pc # "idle"})
                                 = Cardinality(Running(i)) + 1
                      ELSE UNCHANGED <<activeS2S, loops>>]_vars

\* C21 witness: a retry fired for an identity whose route was registered but
\* whose output channel had been torn down, and no stream was started.
C21_Witness ==
    /\ last.op = "retry"
    /\ ~last.info
    /\ routes[last.id] # NoRoute
    /\ ~RouteUsable(last.id)
    /\ last.id \notin activeS2S

\* C22: no relay loop is ever started, by any start path, for an identity
\* that starts with the worker's own identity.
C22_NoSelfLoop ==
    \A i \in Ids :
        StartsWithAudioWorker(i) => Running(i) = {} /\ i \notin activeS2S

\* a field of a set-voice body is missing: absent or empty
Missing(x) == x = Undefined \/ x = Str("")

Quiet(i) ==
    /\ \A j \in joins : j.id # i
    /\ \A t \in leaves : t.id # i
    /\ Fetching(loops, i) = {}
    /\ Recreating(loops, i) = {}

\* C24: once a participant has left the connected session and every handler
\* working for its identity has finished, the registry holds no route and no
\* published output channel for that identity.
C24_NoRouteOnceGone ==
    \A i \in Ids :
        (roomState = "connected" /\ i \notin present /\ Quiet(i))
           => routes[i] = NoRoute /\ published[i] = {}

Awaiting == {"fetch", "recreate_unpub", "recreate_pub"}

C27_MarkerFollowsLoop ==
    [][\A i \in Ids :
          LET after == {s \in Slots : loops'[i][s].pc # "idle"} IN
          /\ after # {} => i \in activeS2S'
          /\ (/\ last'.id = i
              /\ Cardinality(after) < Cardinality(Running(i))
              /\ after # {}
              /\ i \in activeS2S)
                => i \in activeS2S']_vars

\* the relay loops of identity i that have made their flush attempt
Flushing(lps, i) == {s \in Slots : lps[i][s].pc # "idle" /\ lps[i][s].flush}

\* the relay loops of identity i
Live(lps, i) == {s \in Slots : lps[i][s].pc # "idle"}

\* C28: when a speaker's inbound stream ends, its relay loop either stops at
\* once or makes one flush attempt; a loop that has made its flush attempt
\* takes no further frame and makes no further attempt, and when the attempt
\* ends, with any outcome of the service, of the frame capture or of a route
\* recreation, the loop stops; whenever a loop stops, the identity is not in
\* the active-stream set.
C28_FlushThenStopped ==
    [][\A i \in Ids :
          LET stopped == Cardinality(Live(loops', i)) = Cardinality(Live(loops, i)) - 1
              flushOnly == /\ Fetching(loops, i) \cup Recreating(loops, i) # {}
                           /\ Fetching(loops, i) \cup Recreating(loops, i)
                                 \subseteq Flushing(loops, i)
          IN
          /\ \A s \in Flushing(loops', i) : loops'[i][s].pc \in Awaiting
          /\ Cardinality(Live(loops', i)) < Cardinality(Live(loops, i))
                => stopped /\ i \notin activeS2S'
          /\ Cardinality(Flushing(loops', i)) < Cardinality(Flushing(loops, i))
                => stopped
          /\ (last'.id = i /\ last'.op = "end") => stopped
          /\ (last'.id = i /\ last'.op = "send" /\ last'.info.flush)
                => IF last'.info.issued
                   THEN Cardinality(Flushing(loops', i))
                           = Cardinality(Flushing(loops, i)) + 1
                   ELSE stopped
          /\ (last'.id = i /\ last'.op = "response" /\ flushOnly)
                => \/ stopped
                   \/ Cardinality(Recreating(loops', i))
                         = Cardinality(Recreating(loops, i)) + 1
          /\ (last'.id = i /\ last'.op = "recreated" /\ flushOnly)
                => stopped]_vars

\* C28 witness: the flush attempt of a speaker who is still in the room ended
\* with a failure of the service, and the loop stopped.
C28_Witness ==
    /\ last.op = "response"
    /\ last.info \in FailureOutcomes
    /\ last.id \in present
    /\ Live(loops, last.id) = {}
    /\ last.id \notin activeS2S
    /\ roomState = "connected"

\* C29: a transformation response sets the quota state only when its status
\* is 401 or 429 and its body carries the quota text; every other failure (a
\* 401 or 429 without the text, another non-2xx status, a 2xx with an empty
\* body, a timeout or connection error) leaves the quota state unchanged.
C29_QuotaOnlyWithIndicator ==
    [][(last'.op = "response" /\ last'.info \in FailureOutcomes)
          => IF Status(last'.info) \in {401, 429} /\ QuotaText(last'.info)
             THEN quotaExhausted' = now
             ELSE UNCHANGED quotaExhausted]_vars

\* C29 (amended): a transformation response sets the quota state when its
\* status is 429, with or without the quota text, or when its status is 401
\* and its body carries the quota text; every other failure (a 401 without
\* the text, another non-2xx status, a 2xx with an empty body, a timeout or
\* connection error) leaves the quota state unchanged.
C29_QuotaOn429OrIndicator ==
    [][(last'.op = "response" /\ last'.info \in FailureOutcomes)
          => IF \/ Status(last'.info) = 429
                \/ Status(last'.info) = 401 /\ QuotaText(last'.info)
             THEN quotaExhausted' = now
             ELSE UNCHANGED quotaExhausted]_vars

\* C29 witness: a 429 response without the quota text has just set the quota
\* state.
C29_Witness ==
    /\ last.op = "response"
    /\ last.info = "rate429"
    /\ quotaExhausted = now
    /\ quotaFailedAt = now
    /\ lastSuccessfulCall = now

\* C30: every transformation call that returned 2xx with a non-empty body
\* has, when it ends (after the route recreation it may start), cleared the
\* quota state and set the last-successful-call timestamp to the current
\* time; and a quota state set at time T is cleared only by such a call or by
\* the reset timer firing when the cooldown since T has passed.
C30_SuccessClearsQuota ==
    [][/\ (last'.op = "response" /\ last'.info \notin FailureOutcomes)
             => \/ quotaExhausted' = Null /\ lastSuccessfulCall' = now
                \/ Cardinality(Recreating(loops', last'.id))
                      = Cardinality(Recreating(loops, last'.id)) + 1
       /\ last'.op = "recreated"
             => quotaExhausted' = Null /\ lastSuccessfulCall' = now
       /\ (quotaExhausted # Null /\ quotaExhausted' = Null)
             => \/ last'.op = "response" /\ last'.info \notin FailureOutcomes
                \/ last'.op = "recreated"
                \/ /\ last'.op = "quota_timer"
                   /\ now - quotaExhausted >= QUOTA_COOLDOWN_MS]_vars

\* C31: a relay loop is started for an identity only when the registry holds
\* a route with a source for it; a transformation request is issued for it
\* only when the registry holds such a route at the start of the chunk, and
\* when it does not, the chunk is skipped without a request and the loop goes
\* on (or, after the flush, stops) with the registry, the session and the
\* quota state unchanged; and captureFrame is called for it only when the
\* registry holds such a route at that moment.
C31_NoWorkWithoutRoute ==
    [][\A i \in Ids :
          /\ Cardinality(Live(loops', i)) > Cardinality(Live(loops, i))
                => routes'[i] # NoRoute /\ routes'[i].chan \notin nulled'[i]
          /\ (last'.id = i /\ last'.op = "send")
                => /\ last'.info.issued => RouteUsable(i)
                   /\ ~RouteUsable(i)
                        => /\ ~last'.info.issued
                           /\ Cardinality(Fetching(loops', i))
                                 = Cardinality(Fetching(loops, i))
                           /\ Cardinality(Live(loops', i))
                                 = Cardinality(Live(loops, i))
                                     - (IF last'.info.flush THEN 1 ELSE 0)
                           /\ UNCHANGED <<roomState, routes, published,
                                          quotaExhausted>>
          /\ (last'.id = i /\ last'.op = "response" /\ last'.into # 0)
                => RouteUsable(i)]_vars

\* C31 witness: in a connected session a relay loop drained a chunk of speech
\* for a speaker whose route is gone or torn down; no request was issued and
\* the loop waits for its next frame.
C31_Witness ==
    /\ last.op = "send"
    /\ ~last.info.issued
    /\ ~last.info.flush
    /\ roomState = "connected"
    /\ ~RouteUsable(last.id)
    /\ Live(loops, last.id) # {}
    /\ Fetching(loops, last.id) = {}

\* C32: a voice lookup that fails or returns no selection stores the default
\* voice and join handling goes on to the publish; a failed publish stores no
\* route and publishes nothing, and join handling returns; in both cases the
\* session state is unchanged and a connect-time enumeration goes on to the
\* next participant (or ends after the last one).
C32_JoinFailuresContained ==
    [][\A j \in joins :
          /\ \A out \in LookupOutcomes \ {"custom"} :
                JoinLookupDone(j, out)
                   => /\ participantVoices'[j.id] = "default"
                      /\ \E k \in joins' :
                            /\ k.id = j.id /\ k.enum = j.enum
                            /\ k.pc = "publish" /\ k.voice = "default"
                      /\ UNCHANGED <<roomState, connPc, enumQueue>>
          /\ JoinPublishFail(j)
                => /\ UNCHANGED <<roomState, routes, published>>
                   /\ j \notin joins'
                   /\ IF j.enum /\ connPc = "enum"
                      THEN IF enumQueue = <<>>
                           THEN connPc' = "done"
                           ELSE /\ connPc' = "enum"
                                /\ NewJoin(Head(enumQueue), TRUE) \in joins'
                                /\ enumQueue' = Tail(enumQueue)
                      ELSE UNCHANGED <<connPc, enumQueue>>]_vars

\* C32 witness: at connect time the lookup of the first participant gave no
\* selection and its publish failed; it has the default voice and no route,
\* the session is connected and the enumeration has gone on to the second
\* participant.
C32_Witness ==
    /\ last.op = "route_failed"
    /\ last.info.voiceId = "default"
    /\ participantVoices[last.id] = "default"
    /\ routes[last.id] = NoRoute
    /\ roomState = "connected"
    /\ connPc = "enum"
    /\ \E k \in joins : k.id # last.id /\ k.enum /\ k.pc = "lookup"

\* C33: the frames captured from one response are the first frames of the
\* response in increasing order: all of them when no capture throws, those
\* before the failing one when a capture throws, none when a check before the
\* capture fails; the steps of a route recreation capture nothing; a chunk is
\* captured into the route that is registered when the chunk is sent, which
\* after a successful recreation is the recreated one.
C33_CapturedPrefix ==
    [][\A i \in Ids : \A s \in Slots :
          LET lp == loops[i][s] IN
          /\ \A cap \in CaptureOutcomes : \A n \in 0..MaxOutFrames : \A k \in 0..n :
                ResponseOkAt(i, s, cap, n, k)
                   => /\ last'.frames \in {[x \in 1..m |-> x] : m \in 0..n}
                      /\ Len(last'.frames) =
                            IF CaptureBlocked(i, lp) THEN 0
                            ELSE IF cap \in CaptureFailures THEN k - 1
                            ELSE n
                      /\ last'.frames # <<>> => last'.into = lp.route
          /\ (last'.id = i /\ last'.op = "send" /\ last'.info.issued
                /\ lp.pc = "frames" /\ loops'[i][s].pc = "fetch")
                => /\ routes[i] # NoRoute
                   /\ loops'[i][s].route = routes[i].chan
          /\ \A ok \in BOOLEAN :
                RecreatePublished(i, s, ok)
                   => /\ last'.op = "recreated"
                      /\ ok => routes'[i].chan = lp.newChan
                                  /\ lp.newChan \in published'[i]
                                  /\ lp.newChan # lp.old]_vars

\* C33 witness: the capture of the second of three frames threw a
\* channel-invalid error; the first frame was captured, the third was not.
C33_Witness ==
    /\ last.op = "response"
    /\ last.cap = "InvalidState"
    /\ last.n = MaxOutFrames
    /\ last.frames = <<1>>
    /\ last.into # 0

\* C34: an identity that is marked recently recreated is eventually unmarked,
\* whatever became of the recreation and of the participant; the marker is
\* removed by its timer only; and a channel-invalid capture failure for an
\* identity that is not marked marks it again and calls recreateRoute (which
\* goes on to its unpublish when the identity has a voice assignment).
C34_MarkerExpires ==
    /\ \A i \in Ids : (i \in recentlyRecreated) ~> (i \notin recentlyRecreated)
    /\ [][\A i \in Ids :
             /\ (i \in recentlyRecreated /\ i \notin recentlyRecreated')
                   => last'.op = "expire" /\ last'.id = i
             /\ (/\ last'.op = "response" /\ last'.id = i
                 /\ last'.info \in {"InvalidState", "captureFailed"}
                 /\ i \notin recentlyRecreated)
                   => /\ i \in recentlyRecreated'
                      /\ participantVoices[i] # NoVoice
                            => Cardinality(Recreating(loops', i))
                                  = Cardinality(Recreating(loops, i)) + 1]_vars

\* C34 witness: the marker set by a first recreation has expired, and a later
\* channel-invalid capture failure into the recreated route has marked the
\* identity again and started a new recreation.
C34_Witness ==
    /\ last.op = "response"
    /\ last.info \in {"InvalidState", "captureFailed"}
    /\ last.into = 2
    /\ last.id \in recentlyRecreated
    /\ Recreating(loops, last.id) # {}

====
